---- MODULE Spec2Model ----
(***************************************************************************)
(* Model of src/main.py: a Telegram bot (aiogram 3.x) that hands out file  *)
(* bundles for 8-character codes behind a channel-subscription gate.       *)
(*                                                                         *)
(* Strings are modelled as sequences of one-character strings, so that     *)
(* len(), strip(), upper() and the regular expressions of the source are   *)
(* computed character by character; the one-element sequence "sharp-s"    *)
(* stands for the single character U+00DF.  An Optional[T] of the source   *)
(* is None or Some(x).                                                     *)
(***************************************************************************)
EXTENDS Integers, Sequences, FiniteSets, TLC

VARIABLES users, whitelist, channels, files, file_items, fileSeq,
          state, data, last, probe, redeemed, pending

vars == <<users, whitelist, channels, files, file_items, fileSeq,
          state, data, last, probe, redeemed, pending>>

dbVars == <<users, whitelist, channels, files, file_items, fileSeq>>
fsmVars == <<state, data>>

----------------------------------------------------------------------------
(* Generic helpers on sequences.                                           *)

Range(s) == {s[i] : i \in 1..Len(s)}

\* Optional values: None, or Some(x) holding x.
None == <<>>
Some(x) == <<x>>
Val(o) == o[1]

----------------------------------------------------------------------------
(* Characters and Python string methods.                                   *)

ascii_uppercase ==
  <<"A","B","C","D","E","F","G","H","I","J","K","L","M",
    "N","O","P","Q","R","S","T","U","V","W","X","Y","Z">>

ascii_lowercase ==
  <<"a","b","c","d","e","f","g","h","i","j","k","l","m",
    "n","o","p","q","r","s","t","u","v","w","x","y","z">>

digits == <<"0","1","2","3","4","5","6","7","8","9">>

\* str.isspace() characters that occur in the sampled texts.
Whitespace == {" ", "\n", "\t"}

\* The sharp s: a lowercase letter whose uppercase form is two characters.
SharpS == "sharp-s"

\* str.upper() of one character, as a sequence of characters.
UpperChar(c) ==
  IF c \in Range(ascii_lowercase)
    THEN LET i == CHOOSE j \in 1..Len(ascii_lowercase) : ascii_lowercase[j] = c
         IN  <<ascii_uppercase[i]>>
    ELSE IF c = SharpS THEN <<"S", "S">> ELSE <<c>>

RECURSIVE Upper(_)
Upper(s) == IF s = <<>> THEN <<>> ELSE UpperChar(Head(s)) \o Upper(Tail(s))

RECURSIVE LStrip(_)
LStrip(s) == IF s # <<>> /\ Head(s) \in Whitespace THEN LStrip(Tail(s)) ELSE s

RECURSIVE RStrip(_)
RStrip(s) ==
  IF s # <<>> /\ s[Len(s)] \in Whitespace
    THEN RStrip(SubSeq(s, 1, Len(s) - 1)) ELSE s

Strip(s) == RStrip(LStrip(s))

\* str.replace(ch, '') for a single character ch.
RECURSIVE RemoveChar(_, _)
RemoveChar(s, ch) ==
  IF s = <<>> THEN <<>>
  ELSE IF Head(s) = ch THEN RemoveChar(Tail(s), ch)
       ELSE <<Head(s)>> \o RemoveChar(Tail(s), ch)

StartsWith(s, p) == Len(s) >= Len(p) /\ SubSeq(s, 1, Len(p)) = p

IsDigitStr(s) == s # <<>> /\ \A i \in 1..Len(s) : s[i] \in Range(digits)

\* int() of a string of decimal digits.
RECURSIVE ToInt(_)
ToInt(s) ==
  IF s = <<>> THEN 0
  ELSE LET d == CHOOSE j \in 1..Len(digits) : digits[j] = s[Len(s)]
       IN  10 * ToInt(SubSeq(s, 1, Len(s) - 1)) + (d - 1)

----------------------------------------------------------------------------
(* CodeGenerator.                                                          *)

CODE_LENGTH == 8

charactersLower == ascii_lowercase \o digits

characters == ascii_uppercase \o digits

\* random.choices(characters, k = length): pick[i] is the index drawn for
\* position i.
generate_code(length, pick) == [i \in 1..length |-> characters[pick[i]]]

CodeClass == Range(ascii_uppercase) \cup Range(digits)

\* re.match(r'^[A-Z0-9]{8}$', code): eight characters of the class from the
\* start, then '$', which matches at the end of the string and also just
\* before a newline that ends the string.
validate_code(code) ==
  /\ Len(code) >= 8
  /\ \A i \in 1..8 : code[i] \in CodeClass
  /\ \/ Len(code) = 8
     \/ Len(code) = 9 /\ code[9] = "\n"

----------------------------------------------------------------------------
(* Bounds of the model.                                                    *)

\* Number of characters taken from each end of `characters` when a code is
\* drawn position by position.
SampleWidth == 1

\* Longest string given to validate_code.
MaxProbeLen == 9

----------------------------------------------------------------------------
(* The code generator and the validator as functions of their inputs.      *)

PickSample ==
  {i \in 1..Len(characters) :
     i <= SampleWidth \/ i > Len(characters) - SampleWidth}

ProbeChars == {"A", "9", "a", "\n"}

InitProbe == probe = [src |-> "none", text |-> <<>>]

\* Draws of random.choices: every position from the sampled indices, or the
\* same index of `characters` at every position.
PickDraws ==
  [1..CODE_LENGTH -> PickSample]
    \cup {[k \in 1..CODE_LENGTH |-> i] : i \in 1..Len(characters)}

GenerateCode ==
  /\ probe.src = "none"
  /\ \E pick \in PickDraws :
        probe' = [src |-> "generate_code",
                  text |-> generate_code(CODE_LENGTH, pick)]
  /\ UNCHANGED <<dbVars, fsmVars, last, redeemed, pending>>

TypeChar ==
  /\ probe.src \in {"none", "typed"}
  /\ Len(probe.text) < MaxProbeLen
  /\ \E c \in ProbeChars :
        probe' = [src |-> "typed", text |-> Append(probe.text, c)]
  /\ UNCHANGED <<dbVars, fsmVars, last, redeemed, pending>>

----------------------------------------------------------------------------
(* The platform: identities, chats and media of the sampled events.        *)

UserIds == {1, 2, 3}

\* ADMIN_IDS of the configuration.
ADMIN_IDS == {1, 3}

\* from_user.username of each identity.
Username(u) ==
  IF u = 2 THEN Some(<<"b","o","b">>)
  ELSE IF u = 3 THEN Some(<<"c","h","a","r","l","i","e">>)
  ELSE None

\* Chats the platform knows by handle: what bot.get_chat("@handle") returns.
\* Channel -1001 is known as @chan_a1 "Channel A" and, once its owner has
\* renamed it, as @chan_a9 "Channel A9".
PlatformChats ==
  { [handle |-> <<"c","h","a","n","_","a","1">>, id |-> -1001,
     title |-> "Channel A"],
    [handle |-> <<"c","h","a","n","_","a","9">>, id |-> -1001,
     title |-> "Channel A9"],
    [handle |-> <<"c","h","a","n","_","b","2">>, id |-> -1002,
     title |-> "Channel B"] }

ChannelIds == {c.id : c \in PlatformChats}

\* ChatMember.status values answered by bot.get_chat_member; "error" stands
\* for a call that raises.
Status == {"member", "left", "kicked", "error"}

\* Status of the bot itself in a chat, as answered to get_channel_info.
BotStatus == {"administrator", "member", "error"}

\* Media messages of the sample: (photo | video | document, file_id,
\* file_name, file_size).
MediaSamples ==
  { [kind |-> "photo", file_id |-> "ph1", file_name |-> None, file_size |-> None],
    [kind |-> "video", file_id |-> "vd1", file_name |-> None,
     file_size |-> Some(2048)],
    [kind |-> "document", file_id |-> "dc1", file_name |-> Some("a.pdf"),
     file_size |-> Some(100)] }

----------------------------------------------------------------------------
(* Database: each table is the sequence of its rows in rowid order.        *)

add_user_flagging_listed(tbl, telegram_id, username) ==
  IF \E i \in 1..Len(tbl) : tbl[i].telegram_id = telegram_id
    THEN tbl
    ELSE Append(tbl, [telegram_id |-> telegram_id, username |-> username,
                      is_admin |-> telegram_id \in ADMIN_IDS])

\* INSERT OR IGNORE INTO users: telegram_id is UNIQUE, is_admin defaults FALSE.
add_user(tbl, telegram_id, username) ==
  IF \E i \in 1..Len(tbl) : tbl[i].telegram_id = telegram_id
    THEN tbl
    ELSE Append(tbl, [telegram_id |-> telegram_id, username |-> username,
                      is_admin |-> FALSE])

get_user(telegram_id) ==
  LET hit == {i \in 1..Len(users) : users[i].telegram_id = telegram_id}
  IN  IF hit = {} THEN None ELSE Some(users[CHOOSE i \in hit : TRUE])

\* WHERE username = ?, with every '@' removed from the argument; a NULL
\* username never compares equal.
get_user_by_username(username) ==
  LET name == RemoveChar(username, "@")
      hit  == {i \in 1..Len(users) : users[i].username # None /\ Val(users[i].username) = name}
  IN  IF hit = {} THEN None
      ELSE Some(users[CHOOSE i \in hit : \A j \in hit : i <= j])

\* SELECT is_admin FROM users: the stored flag, FALSE without a row.
is_admin(telegram_id) ==
  LET row == get_user(telegram_id)
  IN  IF row = None THEN FALSE ELSE Val(row).is_admin

is_whitelisted(user_id) == \E i \in 1..Len(whitelist) : whitelist[i].user_id = user_id

add_to_whitelist_replacing(tbl, user_id, added_by) ==
  Append(SelectSeq(tbl, LAMBDA r : r.user_id # user_id),
         [user_id |-> user_id, added_by |-> added_by])

\* INSERT OR IGNORE INTO whitelist: user_id is UNIQUE, so a second insert
\* of an identity adds no row and raises nothing.
add_to_whitelist(tbl, user_id, added_by) ==
  IF \E i \in 1..Len(tbl) : tbl[i].user_id = user_id
    THEN tbl
    ELSE Append(tbl, [user_id |-> user_id, added_by |-> added_by])

\* The flag add_to_whitelist returns: True after the commit, whether or not
\* the INSERT OR IGNORE added a row (False only in the except branch).
add_to_whitelist_returns(tbl, user_id, added_by) == TRUE

remove_from_whitelist(tbl, user_id) ==
  SelectSeq(tbl, LAMBDA r : r.user_id # user_id)

add_channel_ignoring(tbl, channel_id, channel_title, added_by, channel_username) ==
  IF \E i \in 1..Len(tbl) : tbl[i].channel_id = channel_id
    THEN tbl
    ELSE Append(tbl, [channel_id |-> channel_id,
                      channel_username |-> channel_username,
                      channel_title |-> channel_title, added_by |-> added_by,
                      is_active |-> TRUE])

\* INSERT OR REPLACE INTO channels: a row with the same channel_id is
\* deleted and the new row is added at the end; is_active defaults TRUE.
add_channel(tbl, channel_id, channel_title, added_by, channel_username) ==
  Append(SelectSeq(tbl, LAMBDA r : r.channel_id # channel_id),
         [channel_id |-> channel_id, channel_username |-> channel_username,
          channel_title |-> channel_title, added_by |-> added_by,
          is_active |-> TRUE])

remove_channel_keeps_row(tbl, channel_id) == tbl

\* DELETE FROM channels WHERE channel_id = ?.
remove_channel(tbl, channel_id) ==
  SelectSeq(tbl, LAMBDA r : r.channel_id # channel_id)

Reverse(s) == [i \in 1..Len(s) |-> s[Len(s) + 1 - i]]

\* SELECT * FROM channels WHERE is_active = 1 ORDER BY added_at DESC.
get_all_channels == Reverse(SelectSeq(channels, LAMBDA r : r.is_active))

get_channel(channel_id) ==
  LET hit == {i \in 1..Len(channels) : channels[i].channel_id = channel_id}
  IN  IF hit = {} THEN None ELSE Some(channels[CHOOSE i \in hit : TRUE])

create_file_never_raises(code) == FALSE

\* The UNIQUE constraint on files.code: the INSERT raises IntegrityError.
create_file_raises(code) == \E i \in 1..Len(files) : files[i].code = code

\* INSERT INTO files; the new id is the next AUTOINCREMENT value.
create_file(tbl, id, code, admin_id) ==
  Append(tbl, [id |-> id, code |-> code, admin_id |-> admin_id])

add_file_item(tbl, file_id, fd) ==
  Append(tbl, [file_id |-> file_id, file_type |-> fd.type,
               telegram_file_id |-> fd.file_id, file_name |-> fd.name,
               file_size |-> fd.size])

RECURSIVE add_file_items(_, _, _)
add_file_items(tbl, file_id, fds) ==
  IF fds = <<>> THEN tbl
  ELSE add_file_items(add_file_item(tbl, file_id, Head(fds)), file_id, Tail(fds))

get_file_by_code(code) ==
  LET hit == {i \in 1..Len(files) : files[i].code = code}
  IN  IF hit = {} THEN None
      ELSE Some(files[CHOOSE i \in hit : \A j \in hit : i <= j])

get_file_items(file_id) == SelectSeq(file_items, LAMBDA r : r.file_id = file_id)

\* DELETE FROM files WHERE id = ?.  The connection never enables
\* PRAGMA foreign_keys, so ON DELETE CASCADE does not act on file_items.
delete_file(tbl, file_id) == SelectSeq(tbl, LAMBDA r : r.id # file_id)

\* SELECT w.*, u.username ... FROM whitelist w JOIN users u
\* ON w.user_id = u.telegram_id ORDER BY w.added_at DESC.
get_whitelist ==
  SelectSeq(Reverse(whitelist),
            LAMBDA w : \E i \in 1..Len(users) : users[i].telegram_id = w.user_id)

get_statistics_of_bundled_items ==
  [users_count |-> Len(users),
   files_count |-> Len(files),
   file_items_count |->
     Len(SelectSeq(file_items,
                   LAMBDA r : \E j \in 1..Len(files) : files[j].id = r.file_id)),
   channels_count |-> Len(get_all_channels),
   whitelist_count |-> Len(get_whitelist)]

\* StatisticsService.get_statistics: three COUNT(*) queries and the lengths
\* of get_all_channels() and get_whitelist().
get_statistics ==
  [users_count |-> Len(users),
   files_count |-> Len(files),
   file_items_count |-> Len(file_items),
   channels_count |-> Len(get_all_channels),
   whitelist_count |-> Len(get_whitelist)]

----------------------------------------------------------------------------
(* Channel checker and channel identifiers.                                *)

HandleClass ==
  Range(ascii_lowercase) \cup Range(ascii_uppercase) \cup Range(digits) \cup {"_"}

\* Longest prefix of s made of HandleClass characters: the group
\* ([a-zA-Z0-9_]+) matched greedily from the start of s.
RECURSIVE HandleRun(_)
HandleRun(s) ==
  IF s # <<>> /\ Head(s) \in HandleClass
    THEN <<Head(s)>> \o HandleRun(Tail(s)) ELSE <<>>

TMe == <<"t",".","m","e","/">>
TelegramMe == <<"t","e","l","e","g","r","a","m",".","m","e","/">>

\* Rest of s after position i.
From(s, i) == SubSeq(s, i, Len(s))

\* re.search(r'(?:https?://)?(?:t\.me|telegram\.me)/([a-zA-Z0-9_]+)', s):
\* the group of the leftmost place where a domain, a slash and at least one
\* handle character follow each other (the optional scheme in front of it
\* does not change the group).
SearchTelegramLink(s) ==
  LET after(i) == IF StartsWith(From(s, i), TelegramMe)
                    THEN HandleRun(From(s, i + Len(TelegramMe)))
                  ELSE IF StartsWith(From(s, i), TMe)
                    THEN HandleRun(From(s, i + Len(TMe)))
                  ELSE <<>>
      hits == {i \in 1..Len(s) : after(i) # <<>>}
  IN  IF hits = {} THEN None
      ELSE Some(after(CHOOSE i \in hits : \A j \in hits : i <= j))

extract_channel_username(text) ==
  LET t == RemoveChar(Strip(text), "@")
      m == SearchTelegramLink(t)
  IN  IF m # None THEN m
      ELSE IF Len(t) >= 5 /\ \A i \in 1..Len(t) : t[i] \in HandleClass
        THEN Some(t)
      ELSE None

\* What the platform answers for the acting user and channel c; a channel
\* for which no answer was drawn answers "member".
Answer(mem, c) == IF c \in DOMAIN mem THEN mem[c] ELSE "member"

NotSubscribedFailOpen(status) == status \in {"left", "kicked"}

\* get_chat_member(...).status in ['left', 'kicked'], or the call raised.
NotSubscribed(status) == status \in {"left", "kicked"} \/ status = "error"

check_subscription(chs, mem) ==
  SelectSeq(chs, LAMBDA ch : NotSubscribed(Answer(mem, ch.channel_id)))

get_channel_info_any_status(handle, botStatus) ==
  LET h    == IF StartsWith(handle, <<"@">>) THEN Tail(handle) ELSE handle
      hit  == {c \in PlatformChats : c.handle = h}
  IN  IF hit = {}
        THEN None
        ELSE LET c == CHOOSE x \in hit : TRUE
             IN  Some([id |-> c.id, username |-> Some(c.handle), title |-> c.title])

\* get_chat("@handle") raises for an unknown handle; the bot must be
\* administrator or creator of the chat.
get_channel_info(handle, botStatus) ==
  LET h    == IF StartsWith(handle, <<"@">>) THEN Tail(handle) ELSE handle
      hit  == {c \in PlatformChats : c.handle = h}
  IN  IF hit = {} \/ botStatus \notin {"administrator", "creator"}
        THEN None
        ELSE LET c == CHOOSE x \in hit : TRUE
             IN  Some([id |-> c.id, username |-> Some(c.handle), title |-> c.title])

----------------------------------------------------------------------------
(* Inbound events of the sample.                                           *)

\* "AB12CD34": eight characters, the code drawn by PickA
TxtCodeA == <<"A","B","1","2","C","D","3","4">>

\* "XY7890SS": eight characters, the code drawn by PickB
TxtCodeB == <<"X","Y","7","8","9","0","S","S">>

\* "xy7890ss": eight characters, lowercase
TxtCodeBLower == <<"x","y","7","8","9","0","s","s">>

\* " XY7890SS": nine characters: a leading space
TxtCodeBPadded == <<" ","X","Y","7","8","9","0","S","S">>

\* "XY7890\u00df": seven characters, the last one U+00DF
TxtCodeBSharp == <<"X","Y","7","8","9","0",SharpS>>

\* "toolong123": ten characters
TxtTooLong == <<"t","o","o","l","o","n","g","1","2","3">>

\* "/done"
TxtDone == <<"/","d","o","n","e">>

\* "/start"
TxtStart == <<"/","s","t","a","r","t">>

\* "@chan_a1": eight characters
TxtChanA == <<"@","c","h","a","n","_","a","1">>

\* "@chan_a9": eight characters
TxtChanA9 == <<"@","c","h","a","n","_","a","9">>

\* "ab!": neither a link nor a handle
TxtBadHandle == <<"a","b","!">>

\* "t.me/chan_b2"
TxtChanB == <<"t",".","m","e","/","c","h","a","n","_","b","2">>

\* "@bob"
TxtUserBob == <<"@","b","o","b">>

\* "2"
TxtUserTwo == <<"2">>

\* "@charlie": eight characters
TxtUserCharlie == <<"@","c","h","a","r","l","i","e">>

\* "@zed": the handle of nobody
TxtUserZed == <<"@","z","e","d">>

\* "9": the numeric id of nobody
TxtUserNine == <<"9">>

MessageOf(text) ==
  [type |-> "message", text |-> Some(text), media |-> None, data |-> "", arg |-> 0]

MediaOf(m) ==
  [type |-> "message", text |-> None, media |-> Some(m), data |-> "", arg |-> 0]

CallbackOf(d, a) ==
  [type |-> "callback", text |-> None, media |-> None, data |-> d, arg |-> a]

\* Index draws of random.choices that give "AB12CD34" and "XY7890SS".
PickA == <<1, 2, 28, 29, 3, 4, 30, 31>>
PickB == <<24, 25, 34, 35, 36, 27, 19, 19>>
DonePicks == {PickA, PickB}

\* Most files rows ever inserted, and most media messages collected in
\* one upload session.
MaxFiles == 2
MaxAcc == 1
\* The largest number of completions of one user that wait for their answer
\* at the same time.
MaxPending == 2

CallbackEvents ==
  {CallbackOf(d, 0) : d \in {"send_code", "check_subscription", "cancel",
                             "upload_file", "add_channel", "add_whitelist",
                             "statistics"}}
  \cup {CallbackOf("remove_channel_", c) : c \in ChannelIds}
  \cup {CallbackOf("remove_wl_", 2)}
  \cup {CallbackOf(d, i) : d \in {"delete_file_", "download_file_"},
                           i \in 1..MaxFiles}

\* Outcomes of the sends of one delivery: the file references whose typed
\* send (answer_photo / answer_video / answer_document) raises, and those
\* for which the send as a plain document raises as well.
SendFaults ==
  { [bad |-> {}, dead |-> {}],
    [bad |-> {"ph1"}, dead |-> {}],
    [bad |-> {"ph1"}, dead |-> {"ph1"}] }


----------------------------------------------------------------------------
(* Routing: the first registered handler whose filters accept the event.   *)
(* Message handlers are registered in the order cmd_start, process_code,   *)
(* process_files, process_channel, process_whitelist_add.                  *)

\* CommandStart(): the text is the command /start, with or without arguments.
IsStartCommand(text) ==
  /\ StartsWith(text, TxtStart)
  /\ Len(text) = Len(TxtStart) \/ text[Len(TxtStart) + 1] = " "

Route(u, ev) ==
  IF ev.type = "message"
    THEN IF ev.text # None /\ IsStartCommand(Val(ev.text)) THEN "cmd_start"
         ELSE IF state[u] = "waiting_for_code" THEN "process_code"
         ELSE IF state[u] = "waiting_for_files" THEN "process_files"
         ELSE IF state[u] = "waiting_for_channel" THEN "process_channel"
         ELSE IF state[u] = "waiting_for_whitelist_user" THEN "process_whitelist_add"
         ELSE "none"
    ELSE ev.data

----------------------------------------------------------------------------
(* SubscriptionMiddleware, registered as (inner) middleware of the message *)
(* and callback_query observers: it runs around the handler that Route     *)
(* selected.                                                               *)

ActiveIds == {get_all_channels[i].channel_id : i \in 1..Len(get_all_channels)}

ChannelIdsOf(chs) == [i \in 1..Len(chs) |-> chs[i].channel_id]

\* proceed: the handler is called; queried: the channels whose membership
\* was looked up; prompt: the channels listed in the subscription prompt.
GateResult(verdict, queried, prompt, proceed) ==
  [verdict |-> verdict, queried |-> queried, prompt |-> prompt, proceed |-> proceed]

SubscriptionMiddlewareNoReturn(u, ev, mem) ==
  IF is_admin(u) \/ is_whitelisted(u)
    THEN GateResult("exempt", {}, <<>>, TRUE)
  ELSE IF ev.type = "message" /\ ev.text # None /\ Val(ev.text) # <<>>
          /\ Len(Val(ev.text)) = 8
    THEN LET chs == get_all_channels
         IN  IF chs # <<>>
               THEN LET not_subscribed == check_subscription(chs, mem)
                    IN  IF not_subscribed # <<>>
                          THEN GateResult("blocked", Range(ChannelIdsOf(chs)),
                                          ChannelIdsOf(not_subscribed), TRUE)
                          ELSE GateResult("subscribed", Range(ChannelIdsOf(chs)),
                                          <<>>, TRUE)
               ELSE GateResult("nochannels", {}, <<>>, TRUE)
  ELSE GateResult("notcode", {}, <<>>, TRUE)

SubscriptionMiddlewareAnyText(u, ev, mem) ==
  IF is_admin(u) \/ is_whitelisted(u)
    THEN GateResult("exempt", {}, <<>>, TRUE)
  ELSE IF ev.type = "message" /\ ev.text # None /\ Val(ev.text) # <<>>
    THEN LET chs == get_all_channels
         IN  IF chs # <<>>
               THEN LET not_subscribed == check_subscription(chs, mem)
                    IN  IF not_subscribed # <<>>
                          THEN GateResult("blocked", Range(ChannelIdsOf(chs)),
                                          ChannelIdsOf(not_subscribed), FALSE)
                          ELSE GateResult("subscribed", Range(ChannelIdsOf(chs)),
                                          <<>>, TRUE)
               ELSE GateResult("nochannels", {}, <<>>, TRUE)
  ELSE GateResult("notcode", {}, <<>>, TRUE)

SubscriptionMiddleware(u, ev, mem) ==
  IF is_admin(u) \/ is_whitelisted(u)
    THEN GateResult("exempt", {}, <<>>, TRUE)
  ELSE IF ev.type = "message" /\ ev.text # None /\ Val(ev.text) # <<>>
          /\ Len(Val(ev.text)) = 8
    THEN LET chs == get_all_channels
         IN  IF chs # <<>>
               THEN LET not_subscribed == check_subscription(chs, mem)
                    IN  IF not_subscribed # <<>>
                          THEN GateResult("blocked", Range(ChannelIdsOf(chs)),
                                          ChannelIdsOf(not_subscribed), FALSE)
                          ELSE GateResult("subscribed", Range(ChannelIdsOf(chs)),
                                          <<>>, TRUE)
               ELSE GateResult("nochannels", {}, <<>>, TRUE)
  ELSE GateResult("notcode", {}, <<>>, TRUE)

\* What the latest event did: the event, the platform's membership answers
\* for the acting user (mem), the stored admin flag and whitelist entry of
\* the acting user and the active channels when the event arrived, the
\* conversation state (was) and accumulator (held) of the acting user when
\* the event arrived, the
\* middleware's result, the handler that ran and what it answered and sent,
\* the status of the bot that get_channel_info was answered (bot) and the
\* statistics shown (stats).
Outcome(u, ev, mem, g) ==
  [user |-> u, ev |-> ev, mem |-> mem, route |-> Route(u, ev),
   adminFlag |-> is_admin(u), whitelisted |-> is_whitelisted(u),
   active |-> ActiveIds, gate |-> g.verdict, queried |-> g.queried, prompt |-> g.prompt,
   was |-> IF u \in UserIds THEN state[u] ELSE "idle",
   held |-> IF u \in UserIds THEN data[u] ELSE <<>>,
   handler |-> "none", reply |-> "none", sent |-> <<>>, listed |-> <<>>,
   code |-> None, count |-> 0, bot |-> "none", stats |-> None]

NoEvent ==
  [type |-> "none", text |-> None, media |-> None, data |-> "", arg |-> 0]

NoMem == [c \in {} |-> "member"]

\* The platform's answers are drawn for the events in which membership can
\* matter: a text of eight characters, a text that process_code takes for a
\* code, and the verify button.
MemChoices(u, ev) ==
  IF \/ ev.type = "message" /\ ev.text # None /\ Len(Val(ev.text)) = 8
     \/ /\ ev.type = "message" /\ ev.text # None
        /\ state[u] = "waiting_for_code"
        /\ validate_code(Upper(Strip(Val(ev.text))))
     \/ ev.type = "callback" /\ ev.data = "check_subscription"
    THEN [ActiveIds -> Status \ {"kicked"}] \cup {[c \in ActiveIds |-> "kicked"]}
    ELSE {NoMem}

Replied(b, h, r) == [b EXCEPT !.handler = h, !.reply = r]

ClearKeepsState(u) == UNCHANGED fsmVars

ClearEveryone(u) ==
  /\ state' = [v \in UserIds |-> "idle"]
  /\ data' = [v \in UserIds |-> <<>>]

\* FSMContext.clear(): state None and data {}.
Clear(u) ==
  /\ state' = [state EXCEPT ![u] = "idle"]
  /\ data' = [data EXCEPT ![u] = <<>>]

\* A scenario names the identities that act, the events they send and
\* what the platform and the random generator may answer.  stops: the
\* positions of the item whose INSERT raises during an upload completion
\* (0: none does).  history: whether the deliveries are recorded in
\* `redeemed`.  async: whether the next update of a user is handled while
\* a handler of the same user awaits its answer.
Scenario(us, texts, media, callbacks, faults) ==
  [users |-> us,
   messages |-> {MessageOf(t) : t \in texts} \cup {MediaOf(m) : m \in media},
   callbacks |-> {e \in CallbackEvents : e.data \in callbacks},
   faults |-> faults, picks |-> DonePicks, botStatus |-> BotStatus,
   stops |-> {0}, history |-> FALSE, async |-> FALSE]

----------------------------------------------------------------------------
(* Delivery of the items of a bundle.                                      *)

SendKind(item) ==
  IF item.file_type = "photo" THEN "photo"
  ELSE IF item.file_type = "video" THEN "video"
  ELSE "document"

\* The for loop over file_items: the typed send, in its except branch one
\* answer_document, whose own exception leaves the handler.
RECURSIVE SendItems(_, _)
SendItems(items, faults) ==
  IF items = <<>> THEN [sent |-> <<>>, raised |-> FALSE]
  ELSE LET item == Head(items)
           ref  == item.telegram_file_id
           rest == SendItems(Tail(items), faults)
       IN  IF ref \notin faults.bad
             THEN [sent |-> <<[ref |-> ref, via |-> SendKind(item)]>> \o rest.sent,
                   raised |-> rest.raised]
           ELSE IF ref \notin faults.dead
             THEN [sent |-> <<[ref |-> ref, via |-> "fallback"]>> \o rest.sent,
                   raised |-> rest.raised]
           ELSE [sent |-> <<>>, raised |-> TRUE]

----------------------------------------------------------------------------
(* Handlers.  Each takes the acting user, the event and the outcome record *)
(* prepared by the middleware; what the platform and the random generator  *)
(* answer inside a handler is drawn where the handler asks for it.         *)

cmd_start(sc, u, ev, b) ==
  /\ users' = add_user(users, u, Username(u))
  /\ last' = Replied(b, "cmd_start",
                     IF is_admin(u) \/ u \in ADMIN_IDS
                       THEN "welcome_admin" ELSE "welcome")
  /\ UNCHANGED <<whitelist, channels, files, file_items, fileSeq, fsmVars>>

send_code_prompt(sc, u, ev, b) ==
  /\ state' = [state EXCEPT ![u] = "waiting_for_code"]
  /\ last' = Replied(b, "send_code_prompt", "ask_code")
  /\ UNCHANGED <<dbVars, data>>

process_code_consuming(sc, u, ev, b) ==
  IF ev.text = None
    THEN \* message.text is None: .strip() raises AttributeError
         /\ last' = Replied(b, "process_code", "exception")
         /\ UNCHANGED <<dbVars, fsmVars>>
    ELSE
      LET code      == Upper(Strip(Val(ev.text)))
          file_data == get_file_by_code(code)
      IN  /\ UNCHANGED <<users, whitelist, channels, file_items, fileSeq>>
          /\ IF ~validate_code(code)
               THEN /\ last' = Replied(b, "process_code", "bad_format")
                    /\ UNCHANGED <<files, fsmVars>>
             ELSE IF file_data = None
               THEN /\ last' = Replied(b, "process_code", "not_found")
                    /\ Clear(u) /\ UNCHANGED files
             ELSE IF get_file_items(Val(file_data).id) = <<>>
               THEN /\ last' = Replied(b, "process_code", "empty")
                    /\ Clear(u) /\ UNCHANGED files
             ELSE \E faults \in sc.faults :
                  LET r == SendItems(get_file_items(Val(file_data).id), faults)
                  IN  IF r.raised
                        THEN /\ last' = [Replied(b, "process_code", "exception")
                                           EXCEPT !.sent = r.sent,
                                                  !.code = Some(code)]
                             /\ UNCHANGED <<files, fsmVars>>
                        ELSE /\ last' = [Replied(b, "process_code", "all_sent")
                                           EXCEPT !.sent = r.sent,
                                                  !.code = Some(code)]
                             /\ Clear(u)
                             /\ files' = delete_file(files, Val(file_data).id)

process_code(sc, u, ev, b) ==
  IF ev.text = None
    THEN \* message.text is None: .strip() raises AttributeError
         /\ last' = Replied(b, "process_code", "exception")
         /\ UNCHANGED <<dbVars, fsmVars>>
    ELSE
      LET code      == Upper(Strip(Val(ev.text)))
          file_data == get_file_by_code(code)
      IN  /\ UNCHANGED dbVars
          /\ IF ~validate_code(code)
               THEN /\ last' = Replied(b, "process_code", "bad_format")
                    /\ UNCHANGED fsmVars
             ELSE IF file_data = None
               THEN /\ last' = Replied(b, "process_code", "not_found")
                    /\ Clear(u)
             ELSE IF get_file_items(Val(file_data).id) = <<>>
               THEN /\ last' = Replied(b, "process_code", "empty")
                    /\ Clear(u)
             ELSE \E faults \in sc.faults :
                  LET r == SendItems(get_file_items(Val(file_data).id), faults)
                  IN  IF r.raised
                        THEN /\ last' = [Replied(b, "process_code", "exception")
                                           EXCEPT !.sent = r.sent,
                                                  !.code = Some(code)]
                             /\ UNCHANGED fsmVars
                        ELSE /\ last' = [Replied(b, "process_code", "all_sent")
                                           EXCEPT !.sent = r.sent,
                                                  !.code = Some(code)]
                             /\ Clear(u)

check_subscription_cb_lists_all(sc, u, ev, b) ==
  LET chs == get_all_channels
      not_subscribed == check_subscription(chs, b.mem)
  IN  /\ last' = IF chs = <<>> \/ not_subscribed = <<>>
                   THEN Replied(b, "check_subscription", "subscribed_ok")
                   ELSE [Replied(b, "check_subscription", "still_missing")
                           EXCEPT !.listed = ChannelIdsOf(chs)]
      /\ UNCHANGED <<dbVars, fsmVars>>

check_subscription_cb(sc, u, ev, b) ==
  LET chs == get_all_channels
      not_subscribed == check_subscription(chs, b.mem)
  IN  /\ last' = IF chs = <<>> \/ not_subscribed = <<>>
                   THEN Replied(b, "check_subscription", "subscribed_ok")
                   ELSE [Replied(b, "check_subscription", "still_missing")
                           EXCEPT !.listed = ChannelIdsOf(not_subscribed)]
      /\ UNCHANGED <<dbVars, fsmVars>>

cancel_action_keeps_accumulator(sc, u, ev, b) ==
  /\ state' = [state EXCEPT ![u] = "idle"]
  /\ last' = Replied(b, "cancel_action", "cancelled")
  /\ UNCHANGED <<dbVars, data>>

cancel_action(sc, u, ev, b) ==
  /\ Clear(u)
  /\ last' = Replied(b, "cancel_action", "cancelled")
  /\ UNCHANGED dbVars

upload_file_start_unchecked(sc, u, ev, b) ==
  /\ state' = [state EXCEPT ![u] = "waiting_for_files"]
  /\ data' = [data EXCEPT ![u] = <<>>]
  /\ last' = Replied(b, "upload_file_start", "ask_files")
  /\ UNCHANGED dbVars

upload_file_start_keeps_accumulator(sc, u, ev, b) ==
  IF u \notin ADMIN_IDS
    THEN /\ last' = Replied(b, "upload_file_start", "no_permission")
         /\ UNCHANGED <<dbVars, fsmVars>>
    ELSE /\ state' = [state EXCEPT ![u] = "waiting_for_files"]
         /\ last' = Replied(b, "upload_file_start", "ask_files")
         /\ UNCHANGED <<dbVars, data>>

upload_file_start(sc, u, ev, b) ==
  IF u \notin ADMIN_IDS
    THEN /\ last' = Replied(b, "upload_file_start", "no_permission")
         /\ UNCHANGED <<dbVars, fsmVars>>
    ELSE /\ state' = [state EXCEPT ![u] = "waiting_for_files"]
         /\ data' = [data EXCEPT ![u] = <<>>]
         /\ last' = Replied(b, "upload_file_start", "ask_files")
         /\ UNCHANGED dbVars

\* The dict built from a photo, video or document message.
FileData(m) ==
  IF m.kind = "photo"
    THEN [type |-> "photo", file_id |-> m.file_id,
          name |-> Some("photo_<now>.jpg"), size |-> None]
  ELSE IF m.kind = "video"
    THEN [type |-> "video", file_id |-> m.file_id,
          name |-> IF m.file_name # None THEN m.file_name
                   ELSE Some("video_<now>.mp4"),
          size |-> m.file_size]
  ELSE [type |-> "document", file_id |-> m.file_id,
        name |-> m.file_name, size |-> m.file_size]

process_files_clearing_on_collision(sc, u, ev, b) ==
  IF ev.text = Some(TxtDone)
    THEN
      IF data[u] = <<>>
        THEN /\ last' = Replied(b, "process_files", "nothing_uploaded")
             /\ IF sc.async THEN UNCHANGED fsmVars ELSE Clear(u)
             /\ UNCHANGED dbVars
        ELSE \E pick \in sc.picks :
          LET code == generate_code(CODE_LENGTH, pick)
          IN
          IF create_file_raises(code)
            THEN \* sqlite3.IntegrityError leaves the handler
                 /\ last' = [Replied(b, "process_files", "exception")
                               EXCEPT !.code = Some(code)]
                 /\ Clear(u)
                 /\ UNCHANGED dbVars
          ELSE \E stop \in sc.stops :
               /\ fileSeq < MaxFiles
               /\ fileSeq' = fileSeq + 1
               /\ files' = create_file(files, fileSeq + 1, code, u)
               /\ UNCHANGED <<users, whitelist, channels>>
               /\ IF stop \in 1..Len(data[u])
                    THEN \* create_file has committed; add_file_item raises
                         \* at item `stop` and the exception leaves the handler
                         /\ file_items' = add_file_items(file_items, fileSeq + 1,
                                                         SubSeq(data[u], 1, stop - 1))
                         /\ last' = [Replied(b, "process_files", "exception")
                                       EXCEPT !.code = Some(code),
                                              !.count = stop - 1]
                         /\ UNCHANGED fsmVars
                    ELSE /\ file_items' = add_file_items(file_items, fileSeq + 1,
                                                         data[u])
                         /\ last' = [Replied(b, "process_files", "uploaded")
                                       EXCEPT !.code = Some(code),
                                              !.count = Len(data[u])]
                         /\ IF sc.async THEN UNCHANGED fsmVars
                                         ELSE Clear(u)
  ELSE IF ev.media # None
    THEN /\ Len(data[u]) < MaxAcc
         /\ data' = [data EXCEPT ![u] = Append(@, FileData(Val(ev.media)))]
         /\ last' = [Replied(b, "process_files", "file_accepted")
                       EXCEPT !.count = Len(data[u]) + 1]
         /\ UNCHANGED <<dbVars, state>>
  ELSE /\ last' = Replied(b, "process_files", "send_a_file")
       /\ UNCHANGED <<dbVars, fsmVars>>

process_files(sc, u, ev, b) ==
  IF ev.text = Some(TxtDone)
    THEN
      IF data[u] = <<>>
        THEN /\ last' = Replied(b, "process_files", "nothing_uploaded")
             /\ IF sc.async THEN UNCHANGED fsmVars ELSE Clear(u)
             /\ UNCHANGED dbVars
        ELSE \E pick \in sc.picks :
          LET code == generate_code(CODE_LENGTH, pick)
          IN
          IF create_file_raises(code)
            THEN \* sqlite3.IntegrityError leaves the handler
                 /\ last' = [Replied(b, "process_files", "exception")
                               EXCEPT !.code = Some(code)]
                 /\ UNCHANGED <<dbVars, fsmVars>>
          ELSE \E stop \in sc.stops :
               /\ fileSeq < MaxFiles
               /\ fileSeq' = fileSeq + 1
               /\ files' = create_file(files, fileSeq + 1, code, u)
               /\ UNCHANGED <<users, whitelist, channels>>
               /\ IF stop \in 1..Len(data[u])
                    THEN \* create_file has committed; add_file_item raises
                         \* at item `stop` and the exception leaves the handler
                         /\ file_items' = add_file_items(file_items, fileSeq + 1,
                                                         SubSeq(data[u], 1, stop - 1))
                         /\ last' = [Replied(b, "process_files", "exception")
                                       EXCEPT !.code = Some(code),
                                              !.count = stop - 1]
                         /\ UNCHANGED fsmVars
                    ELSE /\ file_items' = add_file_items(file_items, fileSeq + 1,
                                                         data[u])
                         /\ last' = [Replied(b, "process_files", "uploaded")
                                       EXCEPT !.code = Some(code),
                                              !.count = Len(data[u])]
                         /\ IF sc.async THEN UNCHANGED fsmVars
                                         ELSE Clear(u)
  ELSE IF ev.media # None
    THEN /\ Len(data[u]) < MaxAcc
         /\ data' = [data EXCEPT ![u] = Append(@, FileData(Val(ev.media)))]
         /\ last' = [Replied(b, "process_files", "file_accepted")
                       EXCEPT !.count = Len(data[u]) + 1]
         /\ UNCHANGED <<dbVars, state>>
  ELSE /\ last' = Replied(b, "process_files", "send_a_file")
       /\ UNCHANGED <<dbVars, fsmVars>>

download_file(sc, u, ev, b) ==
  \E faults \in sc.faults :
  LET r == SendItems(get_file_items(ev.arg), faults)
  IN  /\ last' = [Replied(b, "download_file",
                          IF r.raised THEN "exception" ELSE "downloaded")
                    EXCEPT !.sent = r.sent]
      /\ UNCHANGED <<dbVars, fsmVars>>

delete_file_cb(sc, u, ev, b) ==
  /\ files' = delete_file(files, ev.arg)
  /\ last' = Replied(b, "delete_file", "file_deleted")
  /\ UNCHANGED <<users, whitelist, channels, file_items, fileSeq, fsmVars>>

add_channel_start(sc, u, ev, b) ==
  IF u \notin ADMIN_IDS
    THEN /\ last' = Replied(b, "add_channel_start", "no_permission")
         /\ UNCHANGED <<dbVars, fsmVars>>
    ELSE /\ state' = [state EXCEPT ![u] = "waiting_for_channel"]
         /\ last' = Replied(b, "add_channel_start", "ask_channel")
         /\ UNCHANGED <<dbVars, data>>

process_channel(sc, u, ev, b) ==
  IF ev.text = None
    THEN \* extract_channel_username(None): AttributeError
         /\ last' = Replied(b, "process_channel", "exception")
         /\ UNCHANGED <<dbVars, fsmVars>>
    ELSE
      LET channel_username == extract_channel_username(Val(ev.text))
      IN
      IF channel_username = None
        THEN /\ last' = Replied(b, "process_channel", "bad_channel_format")
             /\ UNCHANGED <<dbVars, fsmVars>>
        ELSE \E botStatus \in sc.botStatus :
          LET channel_info == get_channel_info(Val(channel_username), botStatus)
          IN
          IF channel_info = None
            THEN /\ last' = [Replied(b, "process_channel", "channel_not_found")
                               EXCEPT !.bot = botStatus]
                 /\ UNCHANGED <<dbVars, fsmVars>>
          ELSE /\ channels' = add_channel(channels, Val(channel_info).id,
                                          Val(channel_info).title, u,
                                          Val(channel_info).username)
               /\ last' = [Replied(b, "process_channel", "channel_added")
                             EXCEPT !.bot = botStatus]
               /\ Clear(u)
               /\ UNCHANGED <<users, whitelist, files, file_items, fileSeq>>

remove_channel_cb(sc, u, ev, b) ==
  /\ channels' = remove_channel(channels, ev.arg)
  /\ last' = Replied(b, "remove_channel", "channel_removed")
  /\ UNCHANGED <<users, whitelist, files, file_items, fileSeq, fsmVars>>

add_whitelist_start(sc, u, ev, b) ==
  IF u \notin ADMIN_IDS
    THEN /\ last' = Replied(b, "add_whitelist_start", "no_permission")
         /\ UNCHANGED <<dbVars, fsmVars>>
    ELSE /\ state' = [state EXCEPT ![u] = "waiting_for_whitelist_user"]
         /\ last' = Replied(b, "add_whitelist_start", "ask_whitelist_user")
         /\ UNCHANGED <<dbVars, data>>

process_whitelist_add(sc, u, ev, b) ==
  IF ev.text = None
    THEN \* message.text is None: .strip() raises AttributeError
         /\ last' = Replied(b, "process_whitelist_add", "exception")
         /\ UNCHANGED <<dbVars, fsmVars>>
    ELSE
      LET text == Strip(Val(ev.text))
          user == IF StartsWith(text, <<"@">>) THEN get_user_by_username(Tail(text))
                  ELSE IF IsDigitStr(text) THEN get_user(ToInt(text))
                  ELSE None
          user_id == IF user = None THEN 0 ELSE Val(user).telegram_id
      IN  IF user_id = 0 \/ user = None
            THEN /\ last' = Replied(b, "process_whitelist_add", "user_not_found")
                 /\ UNCHANGED <<dbVars, fsmVars>>
            ELSE /\ whitelist' = add_to_whitelist(whitelist, user_id, u)
                 /\ last' = Replied(b, "process_whitelist_add",
                                    IF add_to_whitelist_returns(whitelist, user_id, u)
                                      THEN "whitelist_added"
                                      ELSE "whitelist_error")
                 /\ Clear(u)
                 /\ UNCHANGED <<users, channels, files, file_items, fileSeq>>

remove_whitelist_cb(sc, u, ev, b) ==
  /\ whitelist' = remove_from_whitelist(whitelist, ev.arg)
  /\ last' = Replied(b, "remove_whitelist",
                     IF is_whitelisted(ev.arg) THEN "whitelist_removed"
                     ELSE "whitelist_error")
  /\ UNCHANGED <<users, channels, files, file_items, fileSeq, fsmVars>>

show_statistics(sc, u, ev, b) ==
  /\ last' = IF u \notin ADMIN_IDS
               THEN Replied(b, "show_statistics", "no_permission")
               ELSE [Replied(b, "show_statistics", "statistics")
                       EXCEPT !.stats = Some(get_statistics)]
  /\ UNCHANGED <<dbVars, fsmVars>>

----------------------------------------------------------------------------
(* One inbound event: the middleware, then the handler unless the          *)
(* middleware returned without calling it.                                 *)

\* The handler registered for each route.
Handle(h, sc, u, ev, b) ==
  CASE h = "cmd_start" -> cmd_start(sc, u, ev, b)
    [] h = "process_code" -> process_code(sc, u, ev, b)
    [] h = "process_files" -> process_files(sc, u, ev, b)
    [] h = "process_channel" -> process_channel(sc, u, ev, b)
    [] h = "process_whitelist_add" -> process_whitelist_add(sc, u, ev, b)
    [] h = "send_code" -> send_code_prompt(sc, u, ev, b)
    [] h = "check_subscription" -> check_subscription_cb(sc, u, ev, b)
    [] h = "cancel" -> cancel_action(sc, u, ev, b)
    [] h = "upload_file" -> upload_file_start(sc, u, ev, b)
    [] h = "download_file_" -> download_file(sc, u, ev, b)
    [] h = "delete_file_" -> delete_file_cb(sc, u, ev, b)
    [] h = "add_channel" -> add_channel_start(sc, u, ev, b)
    [] h = "remove_channel_" -> remove_channel_cb(sc, u, ev, b)
    [] h = "add_whitelist" -> add_whitelist_start(sc, u, ev, b)
    [] h = "remove_wl_" -> remove_whitelist_cb(sc, u, ev, b)
    [] h = "statistics" -> show_statistics(sc, u, ev, b)

\* History of completed deliveries by process_code: the code and the items
\* of the first one, and whether that code was delivered again since.
Redeemed ==
  IF last'.handler = "process_code" /\ last'.reply = "all_sent"
    THEN IF redeemed.first = None
           THEN [first |-> Some([code |-> Val(last'.code), sent |-> last'.sent]),
                 again |-> FALSE]
         ELSE IF Val(redeemed.first).code = Val(last'.code)
           THEN [redeemed EXCEPT !.again = TRUE]
         ELSE redeemed
    ELSE redeemed

\* The completions of this user that wait for their answer to be sent.
\* process_files answers before it clears the state, and the polling loop
\* handles every update in a task of its own: while the answer of "/done"
\* is awaited, the next update of the same user is handled.
Pending(sc, u) ==
  IF /\ sc.async
     /\ last'.handler = "process_files"
     /\ last'.reply \in {"uploaded", "nothing_uploaded"}
    THEN [pending EXCEPT ![u] = @ + 1]
    ELSE pending

Dispatch(sc, u, ev, h) ==
  /\ \E mem \in MemChoices(u, ev) :
       LET g == SubscriptionMiddleware(u, ev, mem)
           b == Outcome(u, ev, mem, g)
       IN  IF g.proceed
             THEN Handle(h, sc, u, ev, b)
             ELSE /\ last' = b
                  /\ UNCHANGED <<dbVars, fsmVars>>
  /\ redeemed' = IF sc.history THEN Redeemed ELSE redeemed
  /\ pending' = Pending(sc, u)
  /\ pending'[u] <= MaxPending
  /\ UNCHANGED probe

\* No handler accepts the message: nothing of this program runs.
Unhandled(sc) ==
  \E u \in sc.users, ev \in sc.messages :
    /\ Route(u, ev) = "none"
    /\ \E mem \in MemChoices(u, ev) :
         last' = Outcome(u, ev, mem, GateResult("notrun", {}, <<>>, FALSE))
    /\ UNCHANGED <<dbVars, fsmVars, probe, redeemed, pending>>

OnMessage(sc, h) ==
  \E u \in sc.users, ev \in sc.messages :
    Route(u, ev) = h /\ Dispatch(sc, u, ev, h)

OnCallback(sc, h) ==
  \E u \in sc.users, ev \in sc.callbacks :
    Route(u, ev) = h /\ Dispatch(sc, u, ev, h)

CmdStart(sc) == OnMessage(sc, "cmd_start")
ProcessCode(sc) == OnMessage(sc, "process_code")
ProcessFiles(sc) == OnMessage(sc, "process_files")
ProcessChannel(sc) == OnMessage(sc, "process_channel")
ProcessWhitelistAdd(sc) == OnMessage(sc, "process_whitelist_add")
SendCodePrompt(sc) == OnCallback(sc, "send_code")
CheckSubscription(sc) == OnCallback(sc, "check_subscription")
CancelAction(sc) == OnCallback(sc, "cancel")
UploadFileStart(sc) == OnCallback(sc, "upload_file")
DownloadFile(sc) == OnCallback(sc, "download_file_")
DeleteFile(sc) == OnCallback(sc, "delete_file_")
AddChannelStart(sc) == OnCallback(sc, "add_channel")
RemoveChannel(sc) == OnCallback(sc, "remove_channel_")
AddWhitelistStart(sc) == OnCallback(sc, "add_whitelist")
RemoveWhitelist(sc) == OnCallback(sc, "remove_wl_")
ShowStatistics(sc) == OnCallback(sc, "statistics")

----------------------------------------------------------------------------
(* Specifications.                                                         *)

\* An empty MemoryStorage, and the database file as earlier runs left it:
\* init_database creates only the tables that are missing.
InitWith(us, chs, fs, items, seq) ==
  /\ users = us
  /\ whitelist = <<>>
  /\ channels = chs
  /\ files = fs
  /\ file_items = items
  /\ fileSeq = seq
  /\ state = [u \in UserIds |-> "idle"]
  /\ data = [u \in UserIds |-> <<>>]
  /\ last = Outcome(0, NoEvent, NoMem, GateResult("notrun", {}, <<>>, FALSE))
  /\ InitProbe
  /\ redeemed = [first |-> None, again |-> FALSE]
  /\ pending = [u \in UserIds |-> 0]

\* A new database.
Init == InitWith(<<>>, <<>>, <<>>, <<>>, 0)

\* The upload flow and the bundle actions of the administrator, from a new
\* database.
UploadScenario ==
  Scenario({1}, {TxtDone, TxtTooLong},
           {m \in MediaSamples : m.kind \in {"photo", "video"}},
           {"upload_file", "cancel", "delete_file_"}, SendFaults)

\* The same flow when an INSERT INTO file_items may raise.
UploadStopScenario == [UploadScenario EXCEPT !.stops = 0..MaxAcc]

NextUpload ==
  \/ ProcessFiles(UploadScenario)
  \/ UploadFileStart(UploadScenario)
  \/ CancelAction(UploadScenario)
  \/ DeleteFile(UploadScenario)
  \/ Unhandled(UploadScenario)

SpecUpload == Init /\ [][NextUpload]_vars

NextUploadStop ==
  \/ ProcessFiles(UploadStopScenario)
  \/ UploadFileStart(UploadStopScenario)
  \/ CancelAction(UploadStopScenario)
  \/ DeleteFile(UploadStopScenario)
  \/ Unhandled(UploadStopScenario)

SpecUploadStop == Init /\ [][NextUploadStop]_vars

\* The answer of a "/done" has been sent: process_files goes on to
\* state.clear().
ResumeDone(sc) ==
  \E u \in sc.users :
    /\ pending[u] > 0
    /\ pending' = [pending EXCEPT ![u] = @ - 1]
    /\ Clear(u)
    /\ UNCHANGED <<dbVars, last, probe, redeemed>>

\* The upload flow and the code prompt of the administrator from a new
\* database, as the polling loop runs it: every update in a task of its
\* own.
AsyncScenario ==
  [Scenario({1}, {TxtStart, TxtDone},
            {m \in MediaSamples : m.kind = "photo"},
            {"upload_file", "send_code", "cancel"}, {})
     EXCEPT !.async = TRUE]

NextAsync ==
  \/ CmdStart(AsyncScenario)
  \/ UploadFileStart(AsyncScenario)
  \/ ProcessFiles(AsyncScenario)
  \/ ResumeDone(AsyncScenario)
  \/ SendCodePrompt(AsyncScenario)
  \/ ProcessCode(AsyncScenario)
  \/ CancelAction(AsyncScenario)
  \/ Unhandled(AsyncScenario)

SpecAsync == Init /\ [][NextAsync]_vars

\* The database after both identities have sent /start and the
\* administrator has registered the channel @chan_a1 and uploaded a photo
\* and a document as one bundle, for which the code "XY7890SS" was drawn.
SeedChannels ==
  LET c == CHOOSE x \in PlatformChats : x.title = "Channel A"
  IN  add_channel(<<>>, c.id, c.title, 1, Some(c.handle))
SeedUsers == add_user(add_user(<<>>, 1, Username(1)), 2, Username(2))
SeedFiles == create_file(<<>>, 1, generate_code(CODE_LENGTH, PickB), 1)
SeedItems ==
  add_file_items(<<>>, 1,
    <<FileData(CHOOSE m \in MediaSamples : m.kind = "photo"),
      FileData(CHOOSE m \in MediaSamples : m.kind = "document")>>)

InitGate == InitWith(SeedUsers, SeedChannels, SeedFiles, SeedItems, 1)

\* Gating and redemption: both identities, the channel and whitelist flows
\* and the redemption flow, on the seeded database.
GateScenario ==
  Scenario({1, 2},
           {TxtCodeB, TxtCodeBSharp, TxtCodeBPadded, TxtTooLong,
            TxtStart, TxtChanA, TxtChanB, TxtUserBob},
           {CHOOSE m \in MediaSamples : m.kind = "photo"},
           {"send_code", "check_subscription", "cancel", "add_channel",
            "remove_channel_", "add_whitelist", "remove_wl_"},
           {f \in SendFaults : f.bad = {}})

NextGate ==
  \/ CmdStart(GateScenario)
  \/ ProcessCode(GateScenario)
  \/ ProcessChannel(GateScenario)
  \/ ProcessWhitelistAdd(GateScenario)
  \/ SendCodePrompt(GateScenario)
  \/ CheckSubscription(GateScenario)
  \/ CancelAction(GateScenario)
  \/ AddChannelStart(GateScenario)
  \/ RemoveChannel(GateScenario)
  \/ AddWhitelistStart(GateScenario)
  \/ RemoveWhitelist(GateScenario)
  \/ Unhandled(GateScenario)

SpecGate == InitGate /\ [][NextGate]_vars

\* The channel flow of two administrators and one other identity on the
\* seeded database; of the registered channels only -1002 is ever removed.
ChannelScenario ==
  [Scenario(UserIds, {TxtChanA, TxtChanA9, TxtChanB, TxtTooLong, TxtBadHandle}, {},
            {"add_channel", "remove_channel_", "cancel"}, {})
     EXCEPT !.callbacks = {e \in @ : e.data = "remove_channel_" => e.arg = -1002}]

NextChannel ==
  \/ ProcessChannel(ChannelScenario)
  \/ AddChannelStart(ChannelScenario)
  \/ RemoveChannel(ChannelScenario)
  \/ CancelAction(ChannelScenario)
  \/ Unhandled(ChannelScenario)

SpecChannel == InitGate /\ [][NextChannel]_vars

\* The entries into the three input states and what the states accept, for
\* an administrator and another identity on the seeded database.
EntryScenario ==
  Scenario({1, 2}, {TxtTooLong, TxtDone, TxtChanB, TxtUserTwo},
           {CHOOSE m \in MediaSamples : m.kind = "photo"},
           {"send_code", "cancel", "upload_file", "add_channel",
            "add_whitelist"}, {f \in SendFaults : f.bad = {}})

NextEntry ==
  \/ ProcessCode(EntryScenario)
  \/ ProcessFiles(EntryScenario)
  \/ ProcessChannel(EntryScenario)
  \/ ProcessWhitelistAdd(EntryScenario)
  \/ SendCodePrompt(EntryScenario)
  \/ CancelAction(EntryScenario)
  \/ UploadFileStart(EntryScenario)
  \/ AddChannelStart(EntryScenario)
  \/ AddWhitelistStart(EntryScenario)
  \/ Unhandled(EntryScenario)

SpecEntry == InitGate /\ [][NextEntry]_vars

\* The whitelist flow of two administrators and one other identity on the
\* seeded database.
WhitelistScenario ==
  Scenario(UserIds, {TxtUserBob, TxtUserTwo, TxtTooLong}, {},
           {"add_whitelist", "remove_wl_", "cancel"}, {})

NextWhitelist ==
  \/ ProcessWhitelistAdd(WhitelistScenario)
  \/ AddWhitelistStart(WhitelistScenario)
  \/ RemoveWhitelist(WhitelistScenario)
  \/ CancelAction(WhitelistScenario)
  \/ Unhandled(WhitelistScenario)

SpecWhitelist == InitGate /\ [][NextWhitelist]_vars

\* The statistics while users start the bot and whitelist entries, bundles
\* and channels come and go, on the seeded database.
StatsScenario ==
  Scenario(UserIds, {TxtStart, TxtUserBob}, {},
           {"statistics", "add_whitelist", "remove_wl_", "delete_file_",
            "remove_channel_"}, {})

NextStats ==
  \/ ShowStatistics(StatsScenario)
  \/ CmdStart(StatsScenario)
  \/ ProcessWhitelistAdd(StatsScenario)
  \/ AddWhitelistStart(StatsScenario)
  \/ RemoveWhitelist(StatsScenario)
  \/ DeleteFile(StatsScenario)
  \/ RemoveChannel(StatsScenario)
  \/ Unhandled(StatsScenario)

SpecStats == InitGate /\ [][NextStats]_vars

\* The seeded database after identity 3 has sent /start as well.
InitKnown ==
  InitWith(add_user(SeedUsers, 3, Username(3)), SeedChannels, SeedFiles,
           SeedItems, 1)

\* Administrator 1 naming users for the whitelist: by handle and by number,
\* known and unknown, and by a text that is neither.
KnownScenario ==
  Scenario({1, 2}, {TxtUserBob, TxtUserTwo, TxtUserCharlie, TxtUserZed,
                    TxtUserNine, TxtTooLong}, {},
           {"add_whitelist", "remove_wl_", "cancel"}, {})

NextKnown ==
  \/ ProcessWhitelistAdd(KnownScenario)
  \/ AddWhitelistStart(KnownScenario)
  \/ RemoveWhitelist(KnownScenario)
  \/ CancelAction(KnownScenario)
  \/ Unhandled(KnownScenario)

SpecKnown == InitKnown /\ [][NextKnown]_vars

\* The seeded database without a channel, and with a second bundle, code
\* "AB12CD34", left without items by an upload completion whose first
\* INSERT INTO file_items raised.
SeedFilesWithEmpty ==
  create_file(SeedFiles, 2, generate_code(CODE_LENGTH, PickA), 1)

InitRedeem == InitWith(SeedUsers, <<>>, SeedFilesWithEmpty, SeedItems, 2)

\* Redemption and the bundle actions, with sends that may fail.
RedeemScenario ==
  [Scenario({1, 2}, {TxtCodeA, TxtCodeB, TxtCodeBLower, TxtTooLong}, {},
            {"send_code", "cancel", "delete_file_", "download_file_"},
            SendFaults)
     EXCEPT !.history = TRUE]

NextRedeem ==
  \/ ProcessCode(RedeemScenario)
  \/ SendCodePrompt(RedeemScenario)
  \/ CancelAction(RedeemScenario)
  \/ DeleteFile(RedeemScenario)
  \/ DownloadFile(RedeemScenario)
  \/ Unhandled(RedeemScenario)

SpecRedeem == InitRedeem /\ [][NextRedeem]_vars

\* generate_code alone, and validate_code alone, over their inputs.
SpecGenerate == Init /\ [][GenerateCode]_vars
SpecValidate == Init /\ [][TypeChar]_vars

----------------------------------------------------------------------------
(* Properties of the gate (SpecGate).                                      *)

\* The latest event is a text message of exactly eight characters.
LastIsEightCharText ==
  /\ last.ev.type = "message"
  /\ last.ev.text # None
  /\ Len(Val(last.ev.text)) = 8

\* The acting user of the latest event is exempt in the specification's
\* sense: in ADMIN_IDS, or stored admin flag set, or on the whitelist.
LastExempt == last.user \in ADMIN_IDS \/ last.adminFlag \/ last.whitelisted

\* Active channels the acting user of the latest event had left or was
\* banned from, and those of which the user was a member.
LastLeft == {c \in last.active : Answer(last.mem, c) \in {"left", "kicked"}}
LastMember == {c \in last.active : Answer(last.mem, c) = "member"}

\* C1: whatever the event and the channels, an acting user who is in
\* ADMIN_IDS, or has the stored admin flag, or has a whitelist entry, gets
\* no subscription prompt, and the handler of the event is invoked.
C1_ExemptUserNeverPrompted ==
  (last.ev.type # "none" /\ LastExempt)
    => /\ last.gate # "blocked"
       /\ last.prompt = <<>>
       /\ last.route # "none" => last.handler # "none"

\* C2: a user who is neither admin nor whitelisted and sends a text of
\* exactly 8 characters while some active channel answers that the user
\* left or was banned always gets the subscription prompt, which lists every
\* such channel and no channel the user is a member of.
C2_MissingChannelAlwaysPrompted ==
  (LastIsEightCharText /\ ~LastExempt /\ LastLeft # {})
    => /\ last.gate = "blocked"
       /\ LastLeft \subseteq Range(last.prompt)
       /\ Range(last.prompt) \cap LastMember = {}

\* C3: items are delivered by process_code to a non-exempt user only if the
\* membership of that user was looked up in every active channel for this
\* very submission and every answer was "member".
C3_DeliveryOnlyAfterCheck ==
  (last.handler = "process_code" /\ last.sent # <<>> /\ ~LastExempt)
    => /\ last.queried = last.active
       /\ LastMember = last.active

\* C4: check_subscription returns every channel whose lookup raises,
\* whatever the other answers are; and when the gate looked memberships up
\* and a lookup raised, the event is blocked, the prompt lists that channel
\* and no handler runs.
C4_FailedLookupIsNotSubscribed ==
  /\ \A mem \in [ActiveIds -> Status] :
       \A c \in ActiveIds :
         mem[c] = "error"
           => c \in Range(ChannelIdsOf(check_subscription(get_all_channels, mem)))
  /\ \A c \in last.queried :
       Answer(last.mem, c) = "error"
         => /\ last.gate = "blocked"
            /\ c \in Range(last.prompt)
            /\ last.handler = "none"

\* C4 witness: an event was blocked although no channel answered "left" or
\* "kicked": the lookup raised for a channel of the prompt.
C4_Witness_BlockedByError ==
  /\ last.gate = "blocked"
  /\ LastLeft = {}
  /\ \E c \in Range(last.prompt) : last.mem[c] = "error"

\* C5: the gate looks memberships up only for a text message of exactly 8
\* characters; any other event of a user without stored admin flag and
\* without whitelist entry that has a handler reaches that handler with no
\* membership lookup by the gate and no prompt.
C5_OnlyEightCharTextIsChecked ==
  /\ last.queried # {} => LastIsEightCharText
  /\ (last.ev.type # "none" /\ last.route # "none"
        /\ ~last.adminFlag /\ ~last.whitelisted /\ ~LastIsEightCharText)
       => /\ last.gate = "notcode"
          /\ last.queried = {}
          /\ last.prompt = <<>>
          /\ last.handler # "none"

\* C5 witness: "toolong123" sent by the non-exempt user 2 while a channel
\* is active reached process_code.
C5_Witness_LongTextPassed ==
  /\ last.ev = MessageOf(TxtTooLong)
  /\ last.user = 2 /\ ~LastExempt
  /\ last.active # {}
  /\ last.handler = "process_code"

\* C6: an event the gate blocks invokes no handler: conversation state,
\* upload accumulator and every table are as before the event, and nothing
\* is sent.
C6_BlockedEventChangesNothing ==
  [][last'.gate = "blocked"
       => /\ last'.handler = "none"
          /\ last'.sent = <<>>
          /\ UNCHANGED <<dbVars, fsmVars>>]_vars

\* C6 witness: a submission was blocked for a user who is waiting for a
\* code, and that user is still waiting.
C6_Witness_BlockedWhileWaiting ==
  /\ last.gate = "blocked"
  /\ last.route = "process_code"
  /\ state[last.user] = "waiting_for_code"

\* C7: removing the only active channel leaves no active channel, and an
\* event that arrives while no channel is active and that has a handler
\* reaches it without lookup and without prompt.
C7_NoChannelsPassThrough ==
  [][/\ (last'.handler = "remove_channel" /\ ActiveIds \subseteq {last'.ev.arg})
          => ActiveIds' = {}
     /\ (last'.active = {} /\ last'.route # "none")
          => /\ last'.gate # "blocked"
             /\ last'.queried = {}
             /\ last'.prompt = <<>>
             /\ last'.handler # "none"]_vars

\* C7 witness: the seeded channel was removed, and then an 8-character
\* text of the non-exempt user 2 reached process_code.
C7_Witness_AfterRemoval ==
  /\ channels = <<>>
  /\ last.active = {}
  /\ LastIsEightCharText /\ ~LastExempt
  /\ last.gate = "nochannels"
  /\ last.handler = "process_code"

----------------------------------------------------------------------------
(* Properties of the code generator and validator.                         *)

\* The 36 symbols A-Z and 0-9.
Alphabet == Range(ascii_uppercase) \cup Range(digits)

\* C8: every code generate_code returns passes validate_code: it has
\* exactly 8 characters, each one of the 36 symbols A-Z, 0-9.
C8_GeneratedCodeValidates ==
  probe.src = "generate_code"
    => /\ validate_code(probe.text)
       /\ Len(probe.text) = 8
       /\ Range(probe.text) \subseteq Alphabet
       /\ Cardinality(Alphabet) = 36

\* C8 witness: a generated code that starts with a letter and ends with a
\* digit.
C8_Witness_Generated ==
  /\ probe.src = "generate_code"
  /\ probe.text[1] = "A"
  /\ probe.text[CODE_LENGTH] = "9"

\* C9: validate_code accepts a string if and only if it has exactly 8
\* characters and each is an uppercase letter A-Z or a digit 0-9.
C9_ValidateIffEightAlphabetChars ==
  probe.src = "typed"
    => (validate_code(probe.text)
          <=> Len(probe.text) = 8 /\ Range(probe.text) \subseteq Alphabet)

----------------------------------------------------------------------------
(* Properties of the files table (SpecUpload).                             *)

\* C10: no two rows of the files table have the same code.
C10_CodesUnique ==
  \A i, j \in 1..Len(files) : files[i].code = files[j].code => i = j

\* C10 witness: two bundles are stored and an upload that drew the code of
\* one of them was rejected.
C10_Witness_CollisionRejected ==
  /\ Len(files) = 2
  /\ last.handler = "process_files"
  /\ last.reply = "exception"
  /\ \E i \in 1..Len(files) : Some(files[i].code) = last.code

----------------------------------------------------------------------------
(* Properties of upload completion (SpecUpload, SpecUploadStop).           *)

\* The step is a /done of an administrator whose accumulator is not empty.
CompletionStep ==
  /\ last'.handler = "process_files"
  /\ last'.ev.text = Some(TxtDone)
  /\ data[last'.user] # <<>>

\* The rows of file_items of a bundle as (kind, file reference) pairs.
ItemsOf(tbl, file_id) ==
  LET rows == SelectSeq(tbl, LAMBDA r : r.file_id = file_id)
  IN  [i \in 1..Len(rows) |->
         <<rows[i].file_type, rows[i].telegram_file_id>>]

\* The accumulator as (kind, file reference) pairs.
Collected(acc) == [i \in 1..Len(acc) |-> <<acc[i].type, acc[i].file_id>>]

\* C11: a /done with a non-empty accumulator whose generated code is the
\* code of a stored bundle still ends with the bundle created under another
\* code with all accumulated items, the code reported, the state idle and
\* no failure.
C11_CollisionIsRetried ==
  [][(CompletionStep /\ \E i \in 1..Len(files) : Some(files[i].code) = last'.code)
       => /\ last'.reply = "uploaded"
          /\ state'[last'.user] = "idle"
          /\ Len(files') = Len(files) + 1
          /\ ItemsOf(file_items', files'[Len(files')].id)
               = Collected(data[last'.user])]_vars

\* C12: every bundle has at least one item, also when an item insertion
\* failed during upload completion.
C12_EveryBundleHasItems ==
  \A i \in 1..Len(files) : get_file_items(files[i].id) # <<>>

\* C13: after a /done with n >= 1 collected media messages exactly one new
\* bundle exists, its items are the collected messages in order (kind and
\* file reference), the reported code is the stored code, the reported count
\* is n, and the state is idle.
C13_CompletionStoresCollected ==
  [][CompletionStep
       => /\ Len(files') = Len(files) + 1
          /\ SubSeq(files', 1, Len(files)) = files
          /\ ItemsOf(file_items', files'[Len(files')].id)
               = Collected(data[last'.user])
          /\ last'.reply = "uploaded"
          /\ last'.code = Some(files'[Len(files')].code)
          /\ last'.count = Len(data[last'.user])
          /\ state'[last'.user] = "idle"]_vars

----------------------------------------------------------------------------
(* Properties of redemption (SpecRedeem).                                  *)

\* The file references of a delivery, in the order sent.
Refs(sent) == [i \in 1..Len(sent) |-> sent[i].ref]

\* C14: a step of process_code changes no table, and a completed delivery
\* of a code that was delivered before sends the same items as the first
\* delivery of that code.
C14_RedemptionKeepsRepository ==
  [][/\ last'.handler = "process_code" => UNCHANGED dbVars
     /\ (/\ last'.handler = "process_code"
         /\ last'.reply = "all_sent"
         /\ redeemed.first # None
         /\ Val(redeemed.first).code = Val(last'.code))
          => Refs(last'.sent) = Refs(Val(redeemed.first).sent)]_vars

\* C14 witness: the code of the first completed delivery was delivered a
\* second time, to the non-exempt user 2.
C14_Witness_DeliveredAgain ==
  /\ redeemed.again
  /\ last.handler = "process_code"
  /\ last.reply = "all_sent"
  /\ last.user = 2
  /\ last.code = Some(Val(redeemed.first).code)

\* C15: when process_code gets a text in code format, a code no bundle has
\* yields the not-found message, and the code of a bundle without items
\* yields the empty error; in both cases nothing is sent and the user's
\* state becomes idle.
C15_UnknownOrEmptyBundle ==
  [][(/\ last'.handler = "process_code"
      /\ last'.ev.text # None
      /\ validate_code(Upper(Strip(Val(last'.ev.text)))))
       => LET code    == Upper(Strip(Val(last'.ev.text)))
              bundles == {i \in 1..Len(files) : files[i].code = code}
              items   == {k \in 1..Len(file_items) :
                            \E i \in bundles : file_items[k].file_id = files[i].id}
          IN  /\ bundles = {}
                   => /\ last'.reply = "not_found"
                      /\ last'.sent = <<>>
                      /\ state'[last'.user] = "idle"
              /\ (bundles # {} /\ items = {})
                   => /\ last'.reply = "empty"
                      /\ last'.sent = <<>>
                      /\ state'[last'.user] = "idle"]_vars

\* C15 witness: the code of the bundle without items was submitted and
\* answered with the empty error, and the user is idle.
C15_Witness_EmptyBundle ==
  /\ last.handler = "process_code"
  /\ last.ev = MessageOf(TxtCodeA)
  /\ last.reply = "empty"
  /\ state[last.user] = "idle"

----------------------------------------------------------------------------
(* Properties of the whitelist (SpecWhitelist).                            *)

\* The step is a process_whitelist_add that named a user with a users row.
WhitelistInsertStep ==
  /\ last'.handler = "process_whitelist_add"
  /\ last'.reply # "user_not_found"
  /\ last'.reply # "exception"

\* C16: the whitelist never holds two entries for one identity, and an
\* insertion leaves every entry that was there as it was, so the entry of
\* an identity keeps the granting admin of its first insertion.
C16_WhitelistInsertIdempotent ==
  [][/\ \A i, j \in 1..Len(whitelist') :
          whitelist'[i].user_id = whitelist'[j].user_id => i = j
     /\ WhitelistInsertStep
          => /\ Len(whitelist') >= Len(whitelist)
             /\ SubSeq(whitelist', 1, Len(whitelist)) = whitelist]_vars

\* C16 witness: administrator 3 inserted identity 2, whose only entry still
\* names administrator 1 as granting admin.
C16_Witness_SecondInsertKeepsFirst ==
  /\ last.handler = "process_whitelist_add"
  /\ last.user = 3
  /\ last.reply # "user_not_found"
  /\ whitelist = <<[user_id |-> 2, added_by |-> 1]>>

\* C17: an insertion of an identity that already has a whitelist entry is
\* reported to the admin as a failure (already present), not as added.
C17_SecondInsertReportsNoNewRow ==
  [][(WhitelistInsertStep /\ Len(whitelist') = Len(whitelist))
       => last'.reply = "whitelist_error"]_vars

----------------------------------------------------------------------------
(* Channel registration.                                                   *)

\* A step in which process_channel registered the chat it resolved.
RegistrationStep ==
  /\ last'.handler = "process_channel"
  /\ last'.reply = "channel_added"

\* The chat the platform resolves the submitted link or handle to.
ResolvedChat(text) ==
  CHOOSE c \in PlatformChats : Some(c.handle) = extract_channel_username(text)

\* C18: the channel table never holds two rows for one platform channel
\* id, and registering an id that is already registered leaves the number
\* of rows as it was and stores the new title and handle in the row of
\* that id.
C18_ChannelUpsertReplaces ==
  [][/\ \A i, j \in 1..Len(channels') :
          channels'[i].channel_id = channels'[j].channel_id => i = j
     /\ RegistrationStep
          => LET c == ResolvedChat(Val(last'.ev.text))
             IN  /\ \E i \in 1..Len(channels') :
                       /\ channels'[i].channel_id = c.id
                       /\ channels'[i].channel_title = c.title
                       /\ channels'[i].channel_username = Some(c.handle)
                 /\ (\E i \in 1..Len(channels) : channels[i].channel_id = c.id)
                      => Len(channels') = Len(channels)]_vars

\* Channel -1001, registered as "Channel A", has been registered again
\* under its new name: one row, carrying the new title and handle.
C18_Witness_Reregistered ==
  /\ last.handler = "process_channel"
  /\ last.reply = "channel_added"
  /\ last.ev.text = Some(TxtChanA9)
  /\ \E i \in 1..Len(channels) :
        /\ channels[i].channel_id = -1001
        /\ channels[i].channel_title = "Channel A9"

----------------------------------------------------------------------------
(* Administrator checks.                                                   *)

AdminInputStates ==
  {"waiting_for_files", "waiting_for_channel", "waiting_for_whitelist_user"}

\* A step in which one of the three entry buttons was pressed.
EntryTap ==
  /\ last'.ev.type = "callback"
  /\ last'.ev.data \in {"upload_file", "add_channel", "add_whitelist"}

\* C19: an identity outside ADMIN_IDS is never in waiting_for_files,
\* waiting_for_channel or waiting_for_whitelist_user, and when it presses
\* upload, add-channel or add-whitelist it is answered with the rejection
\* notice and its conversation state and accumulator stay as they were.
C19_NonAdminNeverEntersInputStates ==
  [][/\ \A u \in UserIds \ ADMIN_IDS : state'[u] \notin AdminInputStates
     /\ (EntryTap /\ last'.user \notin ADMIN_IDS)
          => /\ last'.reply = "no_permission"
             /\ state'[last'.user] = state[last'.user]
             /\ data'[last'.user] = data[last'.user]]_vars

\* Identity 2, waiting for a code, pressed upload and was rejected.
C19_Witness_NonAdminRejected ==
  /\ last.user = 2
  /\ last.ev.data = "upload_file"
  /\ last.reply = "no_permission"
  /\ state[2] = "waiting_for_code"

\* The payload prefixes of the stateless actions meant for administrators.
AdminActions ==
  {"remove_channel_", "remove_wl_", "download_file_", "delete_file_"}

\* C20: no event of an identity outside ADMIN_IDS changes the channel,
\* whitelist, bundle or item table, and when such an identity invokes the
\* removal of a channel or of a whitelist entry, or the download or the
\* deletion of a bundle, it is rejected and nothing is delivered.
C20_NonAdminNeverMutates ==
  [][(last'.user \notin ADMIN_IDS /\ last'.ev.type # "none")
       => /\ UNCHANGED <<channels, whitelist, files, file_items>>
          /\ (last'.ev.type = "callback" /\ last'.ev.data \in AdminActions)
               => /\ last'.reply = "no_permission"
                  /\ last'.sent = <<>>]_vars

\* The acting user of the latest event is an administrator in the
\* specification's sense: in ADMIN_IDS or stored admin flag set.
LastAdmin == last.user \in ADMIN_IDS \/ last.adminFlag

\* C21: the admin status of an identity is decided alike at the three
\* places: the middleware takes its exemption branch for every
\* administrator, an entry button and a stateless administrator action
\* answer with the rejection exactly when the identity is no administrator.
C21_AdminDecidedAlike ==
  last.handler # "none"
    => /\ LastAdmin => last.gate = "exempt"
       /\ (last.ev.type = "callback"
             /\ last.ev.data \in {"upload_file", "add_channel", "add_whitelist"}
                                   \cup AdminActions)
            => (last.reply = "no_permission" <=> ~LastAdmin)

----------------------------------------------------------------------------
(* User records.                                                           *)

\* C22: after any inbound event of an identity the users table holds a
\* record of that identity, and it never holds two records of one
\* identity.
C22_UserRecordAfterAnyEvent ==
  /\ last.ev.type # "none"
       => \E i \in 1..Len(users) : users[i].telegram_id = last.user
  /\ \A i, j \in 1..Len(users) :
       users[i].telegram_id = users[j].telegram_id => i = j

----------------------------------------------------------------------------
(* Deletion of a bundle.                                                   *)

\* C23: every row of file_items references a row of files that exists, so
\* after the deletion of a bundle none of its items remains.
C23_ItemsReferenceExistingBundle ==
  \A i \in 1..Len(file_items) :
    \E j \in 1..Len(files) : files[j].id = file_items[i].file_id

----------------------------------------------------------------------------
(* Cancel and the accumulator.                                             *)

\* The rows that a step appended to file_items, as (kind, reference) pairs.
NewItems ==
  LET rows == SubSeq(file_items', Len(file_items) + 1, Len(file_items'))
  IN  [i \in 1..Len(rows) |-> <<rows[i].file_type, rows[i].telegram_file_id>>]

\* C24: a cancel, whatever the conversation state of the user, leaves the
\* user idle with an empty accumulator and changes no table; and the items
\* a step stores are taken from the accumulator the acting user has at that
\* step, so nothing collected before a cancel reaches a later bundle.
C24_CancelDiscardsEverything ==
  [][/\ last'.handler = "cancel_action"
          => /\ state'[last'.user] = "idle"
             /\ data'[last'.user] = <<>>
             /\ UNCHANGED dbVars
     /\ SubSeq(file_items', 1, Len(file_items)) = file_items
     /\ NewItems # <<>> => NewItems = Collected(data[last'.user])]_vars

\* Administrator 1 cancelled an upload session that had collected a file.
C24_Witness_CancelledWithFiles ==
  /\ last.handler = "cancel_action"
  /\ last.was = "waiting_for_files"
  /\ last.held # <<>>
  /\ state[last.user] = "idle"
  /\ data[last.user] = <<>>

----------------------------------------------------------------------------
(* Delivery.                                                               *)

\* The latest event started the delivery of a bundle by process_code.
LastDelivery == last.handler = "process_code" /\ last.code # None

\* C25: a delivery that has started always runs to its end: whatever sends
\* fail, the handler reaches the closing message and the user is idle.
C25_DeliveryAlwaysCompletes ==
  LastDelivery => /\ last.reply = "all_sent"
                  /\ state[last.user] = "idle"

\* The text is in code format as it stands: exactly CODE_LENGTH characters
\* of A-Z and 0-9.
InCodeFormat(text) ==
  /\ Len(text) = CODE_LENGTH
  /\ \A i \in 1..Len(text) : text[i] \in CodeClass

\* C26: a text received in waiting_for_code that is not in code format as
\* sent is answered with the format error, nothing is looked up or
\* delivered, and the user stays in waiting_for_code.
C26_MalformedTextRejected ==
  (/\ last.handler = "process_code"
   /\ last.ev.text # None
   /\ ~InCodeFormat(Val(last.ev.text)))
    => /\ last.reply = "bad_format"
       /\ last.sent = <<>>
       /\ state[last.user] = "waiting_for_code"

\* The file references of the items of the bundle with this code, in the
\* order of their insertion.
BundleRefs(code) ==
  LET items == get_file_items(Val(get_file_by_code(code)).id)
  IN  [i \in 1..Len(items) |-> items[i].telegram_file_id]

\* C27: the redemption of a stored code whose bundle has items sends every
\* item of the bundle once, in the order of insertion, and leaves the user
\* idle.
C27_DeliveryInOrder ==
  LastDelivery => /\ Refs(last.sent) = BundleRefs(Val(last.code))
                  /\ state[last.user] = "idle"

\* C28: a step that brings a user into waiting_for_files, or in which
\* upload_file_start admits the user, leaves that user's accumulator empty;
\* an accumulator otherwise only stays, is emptied, or grows by the media
\* of the message its owner just sent to process_files; and the items a
\* completion stores are the accumulator.  So a bundle holds only media
\* received since the latest entry into waiting_for_files.
C28_EntryResetsAccumulator ==
  [][/\ \A u \in UserIds :
          \/ state'[u] = "waiting_for_files" /\ state[u] # "waiting_for_files"
          \/ /\ last'.user = u
             /\ last'.handler = "upload_file_start"
             /\ last'.reply = "ask_files"
          => data'[u] = <<>>
     /\ \A u \in UserIds :
          \/ data'[u] = data[u]
          \/ data'[u] = <<>>
          \/ /\ last'.user = u
             /\ last'.handler = "process_files"
             /\ last'.was = "waiting_for_files"
             /\ last'.ev.media # None
             /\ data'[u] = Append(data[u], FileData(Val(last'.ev.media)))
     /\ (last'.handler = "process_files" /\ last'.reply = "uploaded")
          => NewItems = Collected(last'.held)]_vars

\* Administrator 1 pressed upload while an earlier session still held a
\* file, and the new session starts empty.
C28_Witness_ReentryWithFiles ==
  /\ last.handler = "upload_file_start"
  /\ last.reply = "ask_files"
  /\ last.held # <<>>
  /\ state[last.user] = "waiting_for_files"
  /\ data[last.user] = <<>>

\* The chat a text resolves to on the platform, if it names one.
Resolvable(text) ==
  /\ text # None
  /\ extract_channel_username(Val(text)) # None
  /\ \E c \in PlatformChats : Some(c.handle) = extract_channel_username(Val(text))

BotAdministers == {"administrator", "creator"}

\* C29: when process_channel gets a text from which no handle can be taken,
\* or whose handle the platform does not know, or of a chat the bot does
\* not administer, the channel table and the state waiting_for_channel stay
\* as they are; a row is added to the channel table only by a registration
\* in which the bot was answered administrator or creator, and that
\* registration stores the resolved chat and leaves the user idle.
C29_RegistrationOnlyWhenResolved ==
  [][/\ last'.handler = "process_channel"
          => /\ (~Resolvable(last'.ev.text) \/ last'.bot \notin BotAdministers)
                  => /\ channels' = channels
                     /\ state'[last'.user] = "waiting_for_channel"
             /\ last'.reply # "channel_added"
                  => /\ channels' = channels
                     /\ state'[last'.user] = "waiting_for_channel"
             /\ last'.reply = "channel_added"
                  => /\ Resolvable(last'.ev.text)
                     /\ last'.bot \in BotAdministers
                     /\ state'[last'.user] = "idle"
                     /\ \E i \in 1..Len(channels') :
                           channels'[i].channel_id
                             = ResolvedChat(Val(last'.ev.text)).id
     /\ (\E i \in 1..Len(channels') :
           \A j \in 1..Len(channels) : channels[j] # channels'[i])
          => RegistrationStep /\ last'.bot \in BotAdministers]_vars

\* The handle of an existing channel was submitted while the bot is only a
\* member of it: nothing is registered and the admin is asked again.
C29_Witness_BotNotAdministrator ==
  /\ last.handler = "process_channel"
  /\ last.reply = "channel_not_found"
  /\ last.ev.text = Some(TxtChanB)
  /\ last.bot = "member"
  /\ state[last.user] = "waiting_for_channel"
  /\ \A i \in 1..Len(channels) : channels[i].channel_id # -1002

----------------------------------------------------------------------------
(* Naming a user for the whitelist.                                        *)

\* The known user a text names: by "@" and the stored handle, or by the
\* digits of the stored identity.
Named(text) ==
  LET t == Strip(text)
      hit == {i \in 1..Len(users) :
                \/ /\ users[i].username # None
                   /\ t = <<"@">> \o Val(users[i].username)
                \/ /\ IsDigitStr(t)
                   /\ ToInt(t) = users[i].telegram_id}
  IN  {users[i].telegram_id : i \in hit}

\* C30: a text sent in waiting_for_whitelist_user that names no known user
\* adds no whitelist entry and leaves the state; a text that names a known
\* user leaves a whitelist entry of that user and the state idle; and every
\* whitelist entry is of an identity that has a users row.
C30_WhitelistOnlyKnownUsers ==
  [][/\ (/\ last'.was = "waiting_for_whitelist_user"
         /\ last'.ev.type = "message"
         /\ last'.ev.text # None)
          => LET named == Named(Val(last'.ev.text))
             IN  /\ named = {}
                      => /\ whitelist' = whitelist
                         /\ state'[last'.user] = "waiting_for_whitelist_user"
                 /\ named # {}
                      => /\ \E i \in 1..Len(whitelist') :
                               whitelist'[i].user_id \in named
                         /\ state'[last'.user] = "idle"
     /\ \A i \in 1..Len(whitelist') :
          \E j \in 1..Len(users') :
            users'[j].telegram_id = whitelist'[i].user_id]_vars

----------------------------------------------------------------------------
(* The verify button.                                                      *)

\* The active channels of which the platform did not answer, for the acting
\* user of a step, that the user is a member.
MissingNow == {c \in last'.active : Answer(last'.mem, c) # "member"}

\* C31: the verify button lists exactly the active channels the user is
\* missing from at that moment, or shows success when there is none or no
\* channel is active, and changes neither table nor conversation state; and
\* an 8-character text of a user who is a member of every active channel
\* is not stopped by the middleware.
C31_VerifyRecomputes ==
  [][/\ last'.handler = "check_subscription"
          => /\ last'.active = ActiveIds
             /\ MissingNow # {}
                  => /\ last'.reply = "still_missing"
                     /\ Range(last'.listed) = MissingNow
             /\ MissingNow = {}
                  => /\ last'.reply = "subscribed_ok"
                     /\ last'.listed = <<>>
             /\ UNCHANGED <<dbVars, fsmVars>>
     /\ (/\ last'.ev.type = "message"
         /\ last'.ev.text # None
         /\ Len(Val(last'.ev.text)) = 8
         /\ MissingNow = {})
          => /\ last'.gate # "blocked"
             /\ last'.prompt = <<>>]_vars

\* Two channels are active; user 2 has joined -1001 and not -1002, and the
\* verify button lists -1002 alone.
C31_Witness_OneStillMissing ==
  /\ last.handler = "check_subscription"
  /\ last.user = 2
  /\ last.active = {-1001, -1002}
  /\ last.reply = "still_missing"
  /\ Range(last.listed) = {-1002}

----------------------------------------------------------------------------
(* Statistics.                                                             *)

\* C32: the statistics shown to an administrator are the numbers of rows
\* of users, files and file_items, the number of active channels and the
\* number of whitelist entries at that moment, and showing them changes
\* nothing.
C32_StatisticsEqualRepository ==
  [][last'.handler = "show_statistics"
       => /\ UNCHANGED <<dbVars, fsmVars>>
          /\ last'.reply = "statistics"
               => /\ last'.stats # None
                  /\ Val(last'.stats).users_count
                       = Cardinality({users[i].telegram_id : i \in 1..Len(users)})
                  /\ Val(last'.stats).files_count
                       = Cardinality({files[i].id : i \in 1..Len(files)})
                  /\ Val(last'.stats).file_items_count = Len(file_items)
                  /\ Val(last'.stats).channels_count = Cardinality(ActiveIds)
                  /\ Val(last'.stats).whitelist_count
                       = Cardinality({whitelist[i].user_id :
                                        i \in 1..Len(whitelist)})]_vars

\* The statistics after identity 3 started the bot, identity 2 was put on
\* the whitelist and the seeded bundle was deleted: three users, no bundle,
\* the two items that stayed behind, one channel, one whitelist entry.
C32_Witness_AfterChanges ==
  /\ last.handler = "show_statistics"
  /\ last.stats = Some([users_count |-> 3, files_count |-> 0,
                        file_items_count |-> 2, channels_count |-> 1,
                        whitelist_count |-> 1])

----------------------------------------------------------------------------
(* Conversation states.                                                    *)

ConversationStates ==
  {"idle", "waiting_for_code", "waiting_for_files", "waiting_for_channel",
   "waiting_for_whitelist_user"}

\* C33: every user has one conversation state, idle or one of the four
\* waiting states, and a step leaves the conversation state and the
\* accumulator of every user other than the acting one as they were.
C33_StatesArePerUser ==
  [][/\ \A u \in UserIds : state'[u] \in ConversationStates
     /\ \A v \in UserIds \ {last'.user} :
          state'[v] = state[v] /\ data'[v] = data[v]]_vars

\* Identity 2 cancelled its code prompt while administrator 1 is in an
\* upload session that holds a file; the session is untouched.
C33_Witness_OtherSessionUntouched ==
  /\ last.user = 2
  /\ last.handler = "cancel_action"
  /\ last.was = "waiting_for_code"
  /\ state[2] = "idle"
  /\ state[1] = "waiting_for_files"
  /\ data[1] # <<>>

----------------------------------------------------------------------------
(* Events of one user while a handler awaits (SpecAsync).                  *)

\* The step ends the upload session of u otherwise than by a cancel.
SessionCompletes(u) ==
  /\ state[u] = "waiting_for_files"
  /\ state'[u] = "idle"
  /\ ~(last'.handler = "cancel_action" /\ pending' = pending)

\* The items of the bundle stored last, as (kind, reference) pairs.
LastBundleItems ==
  IF files' = <<>> THEN <<>>
  ELSE ItemsOf(file_items', files'[Len(files')].id)

\* C34: the events of one user do not interleave on the conversation state
\* of that user: a /done that stores a bundle is never followed, as the
\* next event of the same upload session, by another /done that stores a
\* bundle, and when a session ends otherwise than by a cancel every media
\* message accepted in it is an item of the bundle the session stored.
C34_SessionStoresOneBundle ==
  [][/\ (/\ last.handler = "process_files" /\ last.reply = "uploaded"
         /\ last'.handler = "process_files" /\ last'.reply = "uploaded"
         /\ last'.user = last.user)
          => Len(files') = Len(files)
     /\ \A u \in UserIds :
          (SessionCompletes(u) /\ data[u] # <<>>)
             => LastBundleItems = Collected(data[u])]_vars

----------------------------------------------------------------------------
(* What changes a conversation state.                                      *)

\* The handler bound to a conversation state.
HandlerOf(st) ==
  CASE st = "waiting_for_code" -> "process_code"
    [] st = "waiting_for_files" -> "process_files"
    [] st = "waiting_for_channel" -> "process_channel"
    [] st = "waiting_for_whitelist_user" -> "process_whitelist_add"
    [] OTHER -> "none"

\* The handlers of the four flow entries.
EntryHandlers ==
  {"send_code_prompt", "upload_file_start", "add_channel_start",
   "add_whitelist_start"}

\* The handlers that neither enter, nor continue, nor cancel a flow.
OtherHandlers ==
  {"none", "cmd_start", "check_subscription", "remove_channel",
   "remove_whitelist", "show_statistics", "download_file", "delete_file"}

\* The step is the rest of a "/done" of u whose answer has been sent.
Resumes(u) == pending'[u] < pending[u]

\* C35: the conversation state and the accumulator of a user change only
\* in a step that handles an event of that user by an admitted flow entry,
\* by the handler bound to the state the user is in, or by cancel; a
\* rejected entry and every other event (/start, verify, the removals,
\* statistics, the bundle actions, an event without handler or stopped by
\* the middleware) leave both as they were.
C35_StateChangesOnlyByFlow ==
  [][/\ \A u \in UserIds :
          (state'[u] # state[u] \/ data'[u] # data[u])
            => IF Resumes(u)
                 THEN HandlerOf(state[u]) = "process_files"
                 ELSE /\ last'.user = u
                      /\ \/ /\ last'.handler \in EntryHandlers
                            /\ last'.reply # "no_permission"
                         \/ last'.handler = HandlerOf(state[u])
                         \/ last'.handler = "cancel_action"
     /\ (/\ \A u \in UserIds : ~Resumes(u)
         /\ \/ last'.handler \in OtherHandlers
            \/ last'.reply = "no_permission")
          => UNCHANGED fsmVars]_vars

----------------------------------------------------------------------------
(* A completion whose code is taken (SpecUpload).                          *)

\* The step is a /done with a non-empty accumulator for which the code of
\* a stored bundle was drawn.
CollisionStep ==
  /\ CompletionStep
  /\ \E i \in 1..Len(files) : Some(files[i].code) = last'.code

\* C36: a /done whose generated code is the code of a stored bundle fails
\* and changes no table, and the administrator stays in waiting_for_files
\* with the accumulator as it was; a /done from such a state for which a
\* free code is drawn stores one bundle with all collected items.
C36_FailedCreationKeepsSession ==
  [][/\ CollisionStep
          => /\ last'.reply = "exception"
             /\ UNCHANGED dbVars
             /\ state'[last'.user] = "waiting_for_files"
             /\ data'[last'.user] = data[last'.user]
     /\ (CompletionStep /\ ~CollisionStep)
          => /\ Len(files') = Len(files) + 1
             /\ ItemsOf(file_items', files'[Len(files')].id)
                  = Collected(data[last'.user])]_vars

\* A completion of administrator 1 failed on the code of the only stored
\* bundle; the session still holds the collected photo, and one more bundle
\* can be stored.
C36_Witness_SessionKeptAfterCollision ==
  /\ last.handler = "process_files"
  /\ last.reply = "exception"
  /\ Len(files) = 1
  /\ last.code = Some(files[1].code)
  /\ state[last.user] = "waiting_for_files"
  /\ data[last.user] = last.held
  /\ last.held # <<>>

----------------------------------------------------------------------------
(* The stored admin flag (SpecAsync: from a new database).                 *)

\* C37: from an empty users table on, every row of users has is_admin
\* FALSE, and is_admin answers FALSE for every identity.
C37_StoredAdminFlagNeverSet ==
  /\ \A i \in 1..Len(users) : users[i].is_admin = FALSE
  /\ \A u \in UserIds : ~is_admin(u)

\* Administrator 1, a member of ADMIN_IDS, sent /start to the new database
\* and was welcomed as administrator; the row stored for it is not flagged.
C37_Witness_ListedAdminNotFlagged ==
  /\ last.handler = "cmd_start"
  /\ last.reply = "welcome_admin"
  /\ get_user(last.user) # None
  /\ ~Val(get_user(last.user)).is_admin

====
